---------------------------- MODULE Spec2Model ----------------------------
(***************************************************************************)
(* Model of extensions/tokenizers/rust/src/models/mod.rs of DJL: the model *)
(* loading dispatcher (load_model) and the four boundary handlers          *)
(* loadModel, deleteModel, getInputNames and runInference, on top of the   *)
(* opaque handle registry (to_handle, cast_handle, drop_handle), which     *)
(* lives in the crate root and is modelled from its contract.              *)
(***************************************************************************)
EXTENDS Integers, Sequences, FiniteSets, TLC

(* ------------------------------ bounds -------------------------------- *)

\* Cap on the number of registry slots ever allocated in one run.
MaxHandles == 3

\* Longest inputHandles array a caller passes to runInference.
MaxInputs == 2

\* Longest `architectures` list of a configuration document.
MaxArchs == 2

\* Longest inputHandles array of the runs that follow the tensors through
\* forward by position.
MaxLongInputs == 4

(* --------------------------- configuration ---------------------------- *)

\* enum Config: the kebab-case names of its six variants.
Families == {"bert", "camembert", "roberta", "xlm-roberta", "distilbert", "mistral"}

\* Entries an `architectures` list may hold: the three head names the
\* dispatcher knows and one name it does not.
ArchNames ==
  {"BertForSequenceClassification", "RobertaForSequenceClassification",
   "XLMRobertaForSequenceClassification", "BertForMaskedLM"}

ArchLists == UNION {[1..n -> ArchNames] : n \in 0..MaxArchs}

\* A config.json: absent, not JSON, JSON without model_type, JSON with an
\* unknown model_type, a known family with malformed fields, or a valid
\* document of a family.
BadConfigTags == {"missing", "notjson", "notype", "unknowntype", "malformed"}

ConfigDocs ==
  [tag : BadConfigTags, family : {""}, archs : {<<>>}]
    \cup [tag : {"ok"}, family : Families, archs : ArchLists]

\* The weight files of a directory: the directory cannot be listed, holds no
\* .safetensors file, holds one that cannot be mapped, holds well-formed
\* files whose tensors do not fit the architecture, or holds fitting files.
Stores == {"unlistable", "nofiles", "corrupt", "mismatch", "good"}

NoConfig == [tag |-> "missing", family |-> "", archs |-> <<>>]

\* The modelPath argument: a null Java string, a path that names no
\* directory, or a directory with its contents.
AllPaths ==
  [kind : {"null", "nodir"}, config : {NoConfig}, store : {"nofiles"}]
    \cup [kind : {"dir"}, config : ConfigDocs, store : Stores]

DTypeCodes == {"F16", "F32", "bad"}
DeviceTypes == {"cpu", "gpu", "bad"}

AllRequests == [path : AllPaths, dtype : DTypeCodes, dev : DeviceTypes]

\* The build (cargo features) and the process environment.
EnvValues == {"unset", "true", "false", "junk"}
AllWorlds == [cuda : BOOLEAN, flash : BOOLEAN, envvar : EnvValues]

(* ----------------------- external collaborators ----------------------- *)

\* crate::ndarray::as_data_type: a dtype code to a DType, or an error.
as_data_type(code) ==
  IF code = "bad" THEN [ok |-> FALSE, dtype |-> ""] ELSE [ok |-> TRUE, dtype |-> code]

\* crate::ndarray::as_device: the device a request names.  Whether it refuses
\* a gpu in a build without cuda is not fixed by its contract: both outcomes
\* are kept.
as_device(world, devType) ==
  CASE devType = "cpu" -> {[ok |-> TRUE, device |-> "Cpu"]}
    [] devType = "gpu" ->
         IF world.cuda
           THEN {[ok |-> TRUE, device |-> "Cuda"]}
           ELSE {[ok |-> TRUE, device |-> "Cuda"], [ok |-> FALSE, device |-> ""]}
    [] OTHER -> {[ok |-> FALSE, device |-> ""]}

\* str::parse::<bool> of the USE_FLASH_ATTENTION value, with unwrap_or(true).
ParseBoolOrTrue(v) == IF v = "false" THEN FALSE ELSE TRUE

(* ------------------------------ load_model ----------------------------- *)

LoadErr(err, events) ==
  [ok |-> FALSE, panic |-> FALSE, err |-> err, variant |-> "", flash |-> FALSE,
   events |-> events]

LoadPanic(err, events) ==
  [ok |-> FALSE, panic |-> TRUE, err |-> err, variant |-> "", flash |-> FALSE,
   events |-> events]

LoadOk(variant, flash, events) ==
  [ok |-> TRUE, panic |-> FALSE, err |-> "", variant |-> variant, flash |-> flash,
   events |-> events]

\* The flag without the test of the dtype.
use_flash_attn_any_dtype(world, dtype) ==
  /\ world.cuda
  /\ world.flash
  /\ (IF world.envvar = "unset" THEN TRUE ELSE ParseBoolOrTrue(world.envvar))

\* cfg!(cuda) && cfg!(flash-attn) && dtype == F16 && env override.
use_flash_attn(world, dtype) ==
  /\ world.cuda
  /\ world.flash
  /\ dtype = "F16"
  /\ (IF world.envvar = "unset" THEN TRUE ELSE ParseBoolOrTrue(world.envvar))

\* config.architectures.first()
FirstArch(archs) == IF Len(archs) = 0 THEN "" ELSE archs[1]

\* A dispatcher without the fall-back arms: a family with task heads whose
\* first architecture name is not its head name selects nothing.
SelectVariant_no_fallback(family, archs) ==
  CASE family = "bert" ->
         IF FirstArch(archs) = "BertForSequenceClassification"
           THEN "BertForSequenceClassification" ELSE ""
    [] family = "camembert" -> "CamembertModel"
    [] family = "roberta" ->
         IF FirstArch(archs) = "RobertaForSequenceClassification"
           THEN "RobertaForSequenceClassification" ELSE ""
    [] family = "xlm-roberta" ->
         IF FirstArch(archs) = "XLMRobertaForSequenceClassification"
           THEN "XLMRobertaForSequenceClassification" ELSE ""
    [] family = "distilbert" -> "DistilBertModel"
    [] family = "mistral" -> "MistralModel"

\* A dispatcher that looks for the head name anywhere in the list.
SelectVariant_any_position(family, archs) ==
  LET has(name) == \E i \in 1..Len(archs) : archs[i] = name
  IN  CASE family = "bert" ->
             IF has("BertForSequenceClassification")
               THEN "BertForSequenceClassification" ELSE "BertModel"
        [] family = "camembert" -> "CamembertModel"
        [] family = "roberta" ->
             IF has("RobertaForSequenceClassification")
               THEN "RobertaForSequenceClassification" ELSE "RobertaModel"
        [] family = "xlm-roberta" ->
             IF has("XLMRobertaForSequenceClassification")
               THEN "XLMRobertaForSequenceClassification" ELSE "XLMRobertaModel"
        [] family = "distilbert" -> "DistilBertModel"
        [] family = "mistral" -> "MistralModel"

\* The match on the family and on the first architecture name.
SelectVariant(family, archs) ==
  CASE family = "bert" ->
         IF FirstArch(archs) = "BertForSequenceClassification"
           THEN "BertForSequenceClassification" ELSE "BertModel"
    [] family = "camembert" -> "CamembertModel"
    [] family = "roberta" ->
         IF FirstArch(archs) = "RobertaForSequenceClassification"
           THEN "RobertaForSequenceClassification" ELSE "RobertaModel"
    [] family = "xlm-roberta" ->
         IF FirstArch(archs) = "XLMRobertaForSequenceClassification"
           THEN "XLMRobertaForSequenceClassification" ELSE "XLMRobertaModel"
    [] family = "distilbert" -> "DistilBertModel"
    [] family = "mistral" -> "MistralModel"

\* A loader that takes a document without a recognized model_type for a
\* bert configuration.
load_model_default_family(world, path, dtype, device) ==
  LET e1 == <<"read_config">>
      e2 == e1 \o <<"parse_config">>
      e6 == e2 \o <<"read_dir", "mmap_weights", "device_check", "construct">>
  IN  IF path.kind # "dir" \/ path.config.tag = "missing" THEN LoadErr("IO", e1)
      ELSE IF path.config.tag \in {"notjson", "malformed"} THEN LoadErr("Malformed", e2)
      ELSE IF path.store # "good" \/ (~world.cuda /\ device = "Cuda")
        THEN LoadErr("Construction", e6)
      ELSE IF path.config.tag = "ok"
        THEN LoadOk(SelectVariant(path.config.family, path.config.archs), FALSE, e6)
      ELSE LoadOk("BertModel", FALSE, e6)

\* fn load_model(model_path, dtype, device): the steps in source order, each
\* `?` an early return.  events lists the steps taken.
load_model(world, path, dtype, device) ==
  LET e1 == <<"read_config">>
      e2 == e1 \o <<"parse_config">>
      e3 == e2 \o <<"read_dir">>
      e4 == e3 \o <<"mmap_weights">>
      e5 == e4 \o <<"device_check">>
      e6 == e5 \o <<"construct">>
      flash == use_flash_attn(world, dtype)
  IN  IF path.kind # "dir" \/ path.config.tag = "missing" THEN LoadErr("IO", e1)
      ELSE IF path.config.tag \in {"notjson", "malformed"} THEN LoadErr("Malformed", e2)
      ELSE IF path.config.tag \in {"notype", "unknowntype"}
        THEN LoadErr("UnsupportedArchitecture", e2)
      ELSE IF path.store = "unlistable" THEN LoadErr("IO", e3)
      ELSE IF path.store = "corrupt" THEN LoadErr("IO", e4)
      ELSE IF ~world.cuda /\ device = "Cuda" THEN LoadPanic("CudaNotEnabled", e5)
      ELSE IF path.store # "good" THEN LoadErr("Construction", e6)
      ELSE LoadOk(SelectVariant(path.config.family, path.config.archs), flash, e6)

(* -------------------------- handle registry ---------------------------- *)

\* What a slot owns.  Every object is a tuple headed by its origin.
ModelObj(variant, flash) == <<"model", variant, flash>>
\* The n-th object of the process, when it is a tensor the caller made: no
\* two of them are the same array.
CallerTensor(n) == <<"caller", n>>
NoTensor == <<>>

\* trait Model, fn forward(&self, input_ids, attention_mask, token_type_ids):
\* the output is a new tensor; which one depends on the model and on the
\* three arguments by position.
forward(model, input_ids, attention_mask, token_type_ids) ==
  <<"forward", model, input_ids, attention_mask, token_type_ids>>

\* trait Model, fn get_input_names(&self).
get_input_names(model) == <<"input_ids", "attention_mask">>

Allocated(reg, h) == h \in 1..Len(reg)
Live(reg, h) == Allocated(reg, h) /\ reg[h].live
LiveHandles(reg) == {h \in 1..Len(reg) : reg[h].live}

\* A registry that numbers its slots from 0: the first handle it hands out
\* is the failure value.
to_handle_zero_based(reg, kind, obj) ==
  [reg |-> Append(reg, [kind |-> kind, live |-> TRUE, obj |-> obj]),
   handle |-> Len(reg)]

\* crate::to_handle: create<T>.  A fresh slot that owns the value; the handle
\* is never one handed out before.
to_handle(reg, kind, obj) ==
  [reg |-> Append(reg, [kind |-> kind, live |-> TRUE, obj |-> obj]),
   handle |-> Len(reg) + 1]

\* crate::cast_handle::<T>: borrow<T>.  A reference to the slot, TypeMismatch
\* when the slot holds another type, and undefined on a destroyed handle:
\* the lookup is then refused or returns a reference to the dropped slot.
cast_handle(reg, kind, h) ==
  IF Live(reg, h)
    THEN IF reg[h].kind = kind
           THEN {[ok |-> TRUE, err |-> "", slot |-> h]}
           ELSE {[ok |-> FALSE, err |-> "TypeMismatch", slot |-> 0]}
    ELSE {[ok |-> FALSE, err |-> "UseAfterFree", slot |-> 0],
          [ok |-> TRUE, err |-> "", slot |-> h]}

\* crate::drop_handle::<T>: destroy<T>.  Drops the slot's value once; a second
\* destroy and a destroy at another type are refused.
drop_handle(reg, kind, h) ==
  IF ~Live(reg, h) THEN [ok |-> FALSE, err |-> "DoubleDestroy", reg |-> reg]
  ELSE IF reg[h].kind # kind THEN [ok |-> FALSE, err |-> "TypeMismatch", reg |-> reg]
  ELSE [ok |-> TRUE, err |-> "", reg |-> [reg EXCEPT ![h].live = FALSE]]

(* ------------------------------- state --------------------------------- *)

VARIABLES
  world,    \* the build's features and the environment override
  slots,    \* the registry: slot h is slots[h]
  th,       \* per calling thread: the boundary call in flight
  last,     \* the boundary call that has just returned (or crashed), until its
            \* caller has taken the result
  crashed   \* the process ended by a panic or a memory fault

vars == <<world, slots, th, last, crashed>>

NoPath == [kind |-> "null", config |-> NoConfig, store |-> "nofiles"]
NoReq == [path |-> NoPath, dtype |-> "bad", dev |-> "bad"]

IdleThread ==
  [pc |-> "idle", op |-> "none", h |-> 0, ins |-> <<>>, mref |-> 0, irefs |-> <<>>,
   events |-> <<>>, pre |-> <<>>]

NoCall ==
  [op |-> "none", h |-> 0, ins |-> <<>>, req |-> NoReq, outcome |-> "none",
   err |-> "", ret |-> 0, names |-> <<>>, events |-> <<>>, pre |-> <<>>,
   stale |-> FALSE]

\* The record of a finished call.  outcome is "ok" (returned normally),
\* "thrown" (env.throw, then the failure value), "panic" (a Rust panic in the
\* handler) or "fault" (a dropped slot was read and the process died).
Returned(op, h, ins, req, outcome, err, ret, names, events, pre, stale) ==
  [op |-> op, h |-> h, ins |-> ins, req |-> req, outcome |-> outcome, err |-> err,
   ret |-> ret, names |-> names, events |-> events, pre |-> pre, stale |-> stale]

Dies(outcome) == outcome \in {"panic", "fault"}

\* The process is alive and no result is waiting for its caller.
Running == ~crashed /\ last.op = "none"

\* The caller takes the result of the call that returned.
Return ==
  /\ ~crashed
  /\ last.op # "none"
  /\ last' = NoCall
  /\ UNCHANGED <<world, slots, th, crashed>>

(* ------------------------------ loadModel ------------------------------ *)

\* loadModel with the handle made before the result is matched: a load that
\* fails after the device conversion leaves a slot behind.
loadModel_eager_handle(w, reg, req) ==
  IF req.path.kind = "null"
    THEN {[reg |-> reg, outcome |-> "panic", err |-> "JavaString", ret |-> 0,
           events |-> <<"get_string">>]}
  ELSE IF ~as_data_type(req.dtype).ok
    THEN {[reg |-> reg, outcome |-> "thrown", err |-> "DType", ret |-> 0,
           events |-> <<"get_string", "as_data_type", "throw">>]}
  ELSE
    {LET pre == <<"get_string", "as_data_type", "as_device">>
         lm == load_model(w, req.path, as_data_type(req.dtype).dtype, d.device)
         made == to_handle(reg, "Model", ModelObj(lm.variant, lm.flash))
     IN  IF ~d.ok
           THEN [reg |-> reg, outcome |-> "thrown", err |-> "Device", ret |-> 0,
                 events |-> pre \o <<"throw">>]
         ELSE IF lm.panic
           THEN [reg |-> reg, outcome |-> "panic", err |-> lm.err, ret |-> 0,
                 events |-> pre \o lm.events]
         ELSE IF lm.ok
           THEN [reg |-> made.reg, outcome |-> "ok", err |-> "", ret |-> made.handle,
                 events |-> pre \o lm.events \o <<"to_handle">>]
         ELSE [reg |-> made.reg, outcome |-> "thrown", err |-> lm.err, ret |-> 0,
               events |-> pre \o lm.events \o <<"throw">>]
     : d \in as_device(w, req.dev)}

\* What one loadModel call does to the registry and what it gives back: the
\* closure (get_string(..).expect, as_data_type?, as_device?, load_model) and
\* the match on its result.
loadModel(w, reg, req) ==
  IF req.path.kind = "null"
    THEN {[reg |-> reg, outcome |-> "panic", err |-> "JavaString", ret |-> 0,
           events |-> <<"get_string">>]}
  ELSE IF ~as_data_type(req.dtype).ok
    THEN {[reg |-> reg, outcome |-> "thrown", err |-> "DType", ret |-> 0,
           events |-> <<"get_string", "as_data_type", "throw">>]}
  ELSE
    {LET pre == <<"get_string", "as_data_type", "as_device">>
         lm == load_model(w, req.path, as_data_type(req.dtype).dtype, d.device)
         made == to_handle(reg, "Model", ModelObj(lm.variant, lm.flash))
     IN  IF ~d.ok
           THEN [reg |-> reg, outcome |-> "thrown", err |-> "Device", ret |-> 0,
                 events |-> pre \o <<"throw">>]
         ELSE IF lm.panic
           THEN [reg |-> reg, outcome |-> "panic", err |-> lm.err, ret |-> 0,
                 events |-> pre \o lm.events]
         ELSE IF lm.ok
           THEN [reg |-> made.reg, outcome |-> "ok", err |-> "", ret |-> made.handle,
                 events |-> pre \o lm.events \o <<"to_handle">>]
         ELSE [reg |-> reg, outcome |-> "thrown", err |-> lm.err, ret |-> 0,
               events |-> pre \o lm.events \o <<"throw">>]
     : d \in as_device(w, req.dev)}

\* A boundary call of loadModel by thread t with a request of reqs.
LoadModel(t, reqs) ==
  /\ Running
  /\ th[t].pc = "idle"
  /\ \E req \in reqs :
       \E r \in loadModel(world, slots, req) :
         /\ Len(r.reg) <= MaxHandles
         /\ slots' = r.reg
         /\ last' = Returned("loadModel", 0, <<>>, req, r.outcome, r.err, r.ret,
                             <<>>, r.events, slots, FALSE)
         /\ crashed' = Dies(r.outcome)
  /\ UNCHANGED <<world, th>>

\* The caller creates a tensor (crate::ndarray); it lands in the registry
\* through to_handle like every other object.
CreateTensor(t) ==
  /\ Running
  /\ th[t].pc = "idle"
  /\ Len(slots) < MaxHandles
  /\ LET made == to_handle(slots, "Tensor", CallerTensor(Len(slots) + 1))
     IN  /\ slots' = made.reg
         /\ last' = Returned("createTensor", 0, <<>>, NoReq, "ok", "", made.handle,
                             <<>>, <<"to_handle">>, slots, FALSE)
  /\ UNCHANGED <<world, th, crashed>>

(* ------------------------------ deleteModel ---------------------------- *)

\* drop_handle::<Box<dyn Model>>(handle); the handler has no error path of
\* its own, so a refused destroy ends in the registry's panic.
deleteModel(reg, h) ==
  LET d == drop_handle(reg, "Model", h)
  IN  IF d.ok
        THEN [reg |-> d.reg, outcome |-> "ok", err |-> "", events |-> <<"drop_handle">>]
        ELSE [reg |-> reg, outcome |-> "panic", err |-> d.err, events |-> <<"drop_handle">>]

DeleteModel(t) ==
  /\ Running
  /\ th[t].pc = "idle"
  /\ \E h \in 1..Len(slots) :
       LET r == deleteModel(slots, h)
       IN  /\ slots' = r.reg
           /\ last' = Returned("deleteModel", h, <<>>, NoReq, r.outcome, r.err, 0,
                               <<>>, r.events, slots, FALSE)
           /\ crashed' = Dies(r.outcome)
  /\ UNCHANGED <<world, th>>

(* ----------------------------- getInputNames --------------------------- *)

\* let model = cast_handle::<Box<dyn Model>>(handle);
GetInputNamesCast(t) ==
  /\ Running
  /\ th[t].pc = "idle"
  /\ \E h \in 1..Len(slots) :
       \E c \in cast_handle(slots, "Model", h) :
         IF c.ok
           THEN /\ th' = [th EXCEPT ![t] =
                            [IdleThread EXCEPT !.pc = "names", !.op = "getInputNames",
                               !.h = h, !.mref = c.slot, !.events = <<"cast_model">>,
                               !.pre = slots]]
                /\ UNCHANGED <<last, crashed>>
           ELSE /\ last' = Returned("getInputNames", h, <<>>, NoReq, "panic", c.err, 0,
                                    <<>>, <<"cast_model">>, slots, FALSE)
                /\ crashed' = TRUE
                /\ UNCHANGED th
  /\ UNCHANGED <<world, slots>>

\* model.get_input_names() through the reference, then to_string_array.  A
\* reference to a dropped slot reads freed memory: the call returns what it
\* finds there or the process dies.
GetInputNamesUse(t) ==
  /\ Running
  /\ th[t].pc = "names"
  /\ LET c == th[t]
         stale == ~Live(slots, c.mref)
         ev == c.events \o <<"get_input_names">>
     IN  \E fault \in (IF stale THEN BOOLEAN ELSE {FALSE}) :
           /\ last' = IF fault
                        THEN Returned(c.op, c.h, <<>>, NoReq, "fault", "", 0, <<>>, ev,
                                      c.pre, TRUE)
                        ELSE Returned(c.op, c.h, <<>>, NoReq, "ok", "", 0,
                                      get_input_names(slots[c.mref].obj), ev, c.pre, stale)
           /\ crashed' = fault
  /\ th' = [th EXCEPT ![t] = IdleThread]
  /\ UNCHANGED <<world, slots>>

(* ------------------------------ runInference --------------------------- *)

\* The inputHandles arrays a caller passes: any handles it was ever given.
InputArrays(reg) == UNION {[1..n -> 1..Len(reg)] : n \in 0..MaxInputs}

\* The longer arrays, of handles of the tensors the caller made.
LongInputArrays(reg) ==
  UNION {[1..n -> {h \in 1..Len(reg) : reg[h].obj = CallerTensor(h)}] :
           n \in 0..MaxLongInputs}

\* let model = cast_handle::<Box<dyn Model>>(handle);
\* arrays: the inputHandles arrays the caller may pass.
RunInferenceCastModel(t, arrays) ==
  /\ Running
  /\ th[t].pc = "idle"
  /\ \E h \in 1..Len(slots) :
       \E ins \in arrays :
         \E c \in cast_handle(slots, "Model", h) :
           IF c.ok
             THEN /\ th' = [th EXCEPT ![t] =
                              [IdleThread EXCEPT !.pc = "inputs", !.op = "runInference",
                                 !.h = h, !.ins = ins, !.mref = c.slot,
                                 !.events = <<"cast_model">>, !.pre = slots]]
                  /\ UNCHANGED <<last, crashed>>
             ELSE /\ last' = Returned("runInference", h, ins, NoReq, "panic", c.err, 0,
                                      <<>>, <<"cast_model">>, slots, FALSE)
                  /\ crashed' = TRUE
                  /\ UNCHANGED th
  /\ UNCHANGED <<world, slots>>

\* for &i in input_handles.iter() { input_vec.push(cast_handle::<Tensor>(i)) }
\* refs is input_vec: the references pushed before the loop ended or a cast
\* was refused.
RECURSIVE CastInputs(_, _)
CastInputs(reg, ins) ==
  IF ins = <<>>
    THEN {[ok |-> TRUE, err |-> "", refs |-> <<>>]}
    ELSE UNION
           {IF c.ok
              THEN {[ok |-> r.ok, err |-> r.err, refs |-> <<c.slot>> \o r.refs] :
                      r \in CastInputs(reg, Tail(ins))}
              ELSE {[ok |-> FALSE, err |-> c.err, refs |-> <<>>]}
            : c \in cast_handle(reg, "Tensor", Head(ins))}

CastEvents(r) ==
  [i \in 1..(Len(r.refs) + (IF r.ok THEN 0 ELSE 1)) |-> "cast_tensor"]

RunInferenceCastInputs(t) ==
  /\ Running
  /\ th[t].pc = "inputs"
  /\ LET c == th[t]
     IN  \E r \in CastInputs(slots, c.ins) :
           IF r.ok
             THEN /\ th' = [th EXCEPT ![t].pc = "forward", ![t].irefs = r.refs,
                                      ![t].events = c.events \o CastEvents(r)]
                  /\ UNCHANGED <<last, crashed>>
             ELSE /\ last' = Returned(c.op, c.h, c.ins, NoReq, "panic", r.err, 0, <<>>,
                                      c.events \o CastEvents(r), c.pre, FALSE)
                  /\ crashed' = TRUE
                  /\ th' = [th EXCEPT ![t] = IdleThread]
  /\ UNCHANGED <<world, slots>>

\* input_vec.get(2).map(|&x| x): the third tensor when there is one.
OptionalThird(reg, refs) == IF Len(refs) >= 3 THEN reg[refs[3]].obj ELSE NoTensor

\* The slots model.forward reads: the model and the first three tensors.
ForwardReads(mref, refs) ==
  {mref} \cup {refs[i] : i \in {j \in 1..Len(refs) : j <= 3}}

\* runInference handing back the handle of its first input instead of
\* storing the output in a slot of its own.
runInferenceForward_aliasing(reg, c, fwdOk) ==
  IF Len(c.irefs) < 2
    THEN [reg |-> reg, outcome |-> "panic", err |-> "UnwrapNone", ret |-> 0,
          events |-> c.events \o <<"unwrap">>]
  ELSE IF fwdOk
    THEN [reg |-> reg, outcome |-> "ok", err |-> "", ret |-> c.ins[1],
          events |-> c.events \o <<"unwrap", "forward">>]
  ELSE [reg |-> reg, outcome |-> "thrown", err |-> "Computation", ret |-> 0,
        events |-> c.events \o <<"unwrap", "forward", "throw">>]

\* runInference storing the result before it is matched: a failed forward
\* leaves a slot behind.
runInferenceForward_leaking(reg, c, fwdOk) ==
  LET made == to_handle(reg, "Tensor", NoTensor)
  IN  IF Len(c.irefs) < 2
        THEN [reg |-> reg, outcome |-> "panic", err |-> "UnwrapNone", ret |-> 0,
              events |-> c.events \o <<"unwrap">>]
      ELSE IF fwdOk
        THEN [reg |-> made.reg, outcome |-> "ok", err |-> "", ret |-> made.handle,
              events |-> c.events \o <<"unwrap", "forward", "to_handle">>]
      ELSE [reg |-> made.reg, outcome |-> "thrown", err |-> "Computation", ret |-> 0,
            events |-> c.events \o <<"unwrap", "forward", "throw">>]

\* runInference passing the second tensor as the input sequence and the
\* first as the attention mask.
runInferenceForward_swapped(reg, c, fwdOk) ==
  LET made == to_handle(reg, "Tensor",
                        forward(reg[c.mref].obj, reg[c.irefs[2]].obj,
                                reg[c.irefs[1]].obj, OptionalThird(reg, c.irefs)))
  IN  IF Len(c.irefs) < 2
        THEN [reg |-> reg, outcome |-> "panic", err |-> "UnwrapNone", ret |-> 0,
              events |-> c.events \o <<"unwrap">>]
      ELSE IF fwdOk
        THEN [reg |-> made.reg, outcome |-> "ok", err |-> "", ret |-> made.handle,
              events |-> c.events \o <<"unwrap", "forward", "to_handle">>]
      ELSE [reg |-> reg, outcome |-> "thrown", err |-> "Computation", ret |-> 0,
            events |-> c.events \o <<"unwrap", "forward", "throw">>]

\* runInference taking the last tensor of the array, not the third, as the
\* optional input.
runInferenceForward_last_as_third(reg, c, fwdOk) ==
  LET third == IF Len(c.irefs) >= 3 THEN reg[c.irefs[Len(c.irefs)]].obj ELSE NoTensor
      made == to_handle(reg, "Tensor",
                        forward(reg[c.mref].obj, reg[c.irefs[1]].obj,
                                reg[c.irefs[2]].obj, third))
  IN  IF Len(c.irefs) < 2
        THEN [reg |-> reg, outcome |-> "panic", err |-> "UnwrapNone", ret |-> 0,
              events |-> c.events \o <<"unwrap">>]
      ELSE IF fwdOk
        THEN [reg |-> made.reg, outcome |-> "ok", err |-> "", ret |-> made.handle,
              events |-> c.events \o <<"unwrap", "forward", "to_handle">>]
      ELSE [reg |-> reg, outcome |-> "thrown", err |-> "Computation", ret |-> 0,
            events |-> c.events \o <<"unwrap", "forward", "throw">>]

\* runInference taking its first input by value: the tensor's slot is dropped
\* when the call returns.
runInferenceForward_consuming(reg, c, fwdOk) ==
  LET made == to_handle([reg EXCEPT ![c.irefs[1]].live = FALSE], "Tensor",
                        forward(reg[c.mref].obj, reg[c.irefs[1]].obj,
                                reg[c.irefs[2]].obj, OptionalThird(reg, c.irefs)))
  IN  IF Len(c.irefs) < 2
        THEN [reg |-> reg, outcome |-> "panic", err |-> "UnwrapNone", ret |-> 0,
              events |-> c.events \o <<"unwrap">>]
      ELSE IF fwdOk
        THEN [reg |-> made.reg, outcome |-> "ok", err |-> "", ret |-> made.handle,
              events |-> c.events \o <<"unwrap", "forward", "to_handle">>]
      ELSE [reg |-> reg, outcome |-> "thrown", err |-> "Computation", ret |-> 0,
            events |-> c.events \o <<"unwrap", "forward", "throw">>]

\* model.forward(get(0).unwrap(), get(1).unwrap(), get(2)) and the match on
\* its result, for the registry reg and the call c in flight.  fwdOk is
\* whether the computation succeeds.
runInferenceForward(reg, c, fwdOk) ==
  LET made == to_handle(reg, "Tensor",
                        forward(reg[c.mref].obj, reg[c.irefs[1]].obj,
                                reg[c.irefs[2]].obj, OptionalThird(reg, c.irefs)))
  IN  IF Len(c.irefs) < 2
        THEN [reg |-> reg, outcome |-> "panic", err |-> "UnwrapNone", ret |-> 0,
              events |-> c.events \o <<"unwrap">>]
      ELSE IF fwdOk
        THEN [reg |-> made.reg, outcome |-> "ok", err |-> "", ret |-> made.handle,
              events |-> c.events \o <<"unwrap", "forward", "to_handle">>]
      ELSE [reg |-> reg, outcome |-> "thrown", err |-> "Computation", ret |-> 0,
            events |-> c.events \o <<"unwrap", "forward", "throw">>]

\* cap: the registry size up to which the run is followed.
RunInferenceForward(t, cap) ==
  /\ Running
  /\ th[t].pc = "forward"
  /\ LET c == th[t]
         reads == Len(c.irefs) >= 2
         stale == reads /\ \E s \in ForwardReads(c.mref, c.irefs) : ~Live(slots, s)
     IN  \E fault \in (IF stale THEN BOOLEAN ELSE {FALSE}) :
           \E fwdOk \in BOOLEAN :
             IF fault
               THEN /\ last' = Returned(c.op, c.h, c.ins, NoReq, "fault", "", 0, <<>>,
                                        c.events \o <<"unwrap", "forward">>, c.pre, TRUE)
                    /\ crashed' = TRUE
                    /\ UNCHANGED slots
               ELSE LET r == runInferenceForward(slots, c, fwdOk)
                    IN  /\ Len(r.reg) <= cap
                        /\ slots' = r.reg
                        /\ last' = Returned(c.op, c.h, c.ins, NoReq, r.outcome, r.err,
                                            r.ret, <<>>, r.events, c.pre, stale)
                        /\ crashed' = Dies(r.outcome)
  /\ th' = [th EXCEPT ![t] = IdleThread]
  /\ UNCHANGED world

(* --------------------------- specifications ---------------------------- *)

NoDir == [kind |-> "nodir", config |-> NoConfig, store |-> "nofiles"]

BertDir(archs, store) ==
  [kind |-> "dir", config |-> [tag |-> "ok", family |-> "bert", archs |-> archs],
   store |-> store]

BadConfigDir(tag) ==
  [kind |-> "dir", config |-> [tag |-> tag, family |-> "", archs |-> <<>>],
   store |-> "good"]

\* The requests of the runs that exercise the registry: a null path, a
\* missing directory, a directory for each way config.json can be bad, and a
\* bert directory for each state of its weight files; a valid and an invalid
\* dtype code; every device type.
Requests ==
  [path : {NoPath, NoDir} \cup {BadConfigDir(tag) : tag \in BadConfigTags}
            \cup {BertDir(<<>>, store) : store \in Stores},
   dtype : {"F32", "bad"}, dev : DeviceTypes]

Worlds == [cuda : BOOLEAN, flash : {FALSE}, envvar : {"unset"}]

\* One caller: boundary calls one after the other.
Callers == {"t1"}

Next ==
  \/ \E t \in Callers : LoadModel(t, Requests)
  \/ \E t \in Callers : CreateTensor(t)
  \/ \E t \in Callers : DeleteModel(t)
  \/ \E t \in Callers : GetInputNamesCast(t)
  \/ \E t \in Callers : GetInputNamesUse(t)
  \/ \E t \in Callers : RunInferenceCastModel(t, InputArrays(slots))
  \/ \E t \in Callers : RunInferenceCastInputs(t)
  \/ \E t \in Callers : RunInferenceForward(t, MaxHandles)
  \/ Return

InitWith(worlds, threads) ==
  /\ world \in worlds
  /\ slots = <<>>
  /\ th = [t \in threads |-> IdleThread]
  /\ last = NoCall
  /\ crashed = FALSE

Init == InitWith(Worlds, Callers)
Spec == Init /\ [][Next]_vars

\* Two callers: while one of them is inside getInputNames or runInference,
\* the other makes boundary calls of its own between any two of its steps.
\* loadModel, deleteModel and a tensor's creation touch the registry in one
\* call each, so either thread makes them; the calls that hold a borrowed
\* reference over several steps are t1's.  One build, and loads of the one
\* loadable directory.
Threads == {"t1", "t2"}
ConcWorlds == [cuda : {FALSE}, flash : {FALSE}, envvar : {"unset"}]
ConcRequests == [path : {BertDir(<<>>, "good")}, dtype : {"F32"}, dev : {"cpu"}]

NextConc ==
  \/ \E t \in Threads : LoadModel(t, ConcRequests)
  \/ \E t \in Threads : CreateTensor(t)
  \/ \E t \in Threads : DeleteModel(t)
  \/ \E t \in Callers : GetInputNamesCast(t)
  \/ \E t \in Callers : GetInputNamesUse(t)
  \/ \E t \in Callers : RunInferenceCastModel(t, InputArrays(slots))
  \/ \E t \in Callers : RunInferenceCastInputs(t)
  \/ \E t \in Callers : RunInferenceForward(t, MaxHandles)
  \/ Return

InitConc == InitWith(ConcWorlds, Threads)
SpecConc == InitConc /\ [][NextConc]_vars

\* A first loadModel call, for every build, environment and request.
InitLoad == InitWith(AllWorlds, Callers)
NextLoad == \E t \in Callers : Len(slots) = 0 /\ LoadModel(t, AllRequests)
SpecLoad == InitLoad /\ [][NextLoad]_vars

\* Inference on arrays of up to MaxLongInputs tensor handles: one build, loads
\* of the one loadable directory, tensors the caller makes, and runInference
\* calls, with room for one result on top of the caller's objects.
InferWorlds == [cuda : {FALSE}, flash : {FALSE}, envvar : {"unset"}]
InferRequests == [path : {BertDir(<<>>, "good")}, dtype : {"F32"}, dev : {"cpu"}]

NextInfer ==
  \/ \E t \in Callers : LoadModel(t, InferRequests)
  \/ \E t \in Callers : CreateTensor(t)
  \/ \E t \in Callers : RunInferenceCastModel(t, LongInputArrays(slots))
  \/ \E t \in Callers : RunInferenceCastInputs(t)
  \/ \E t \in Callers : RunInferenceForward(t, MaxHandles + 1)
  \/ Return

InitInfer == InitWith(InferWorlds, Callers)
SpecInfer == InitInfer /\ [][NextInfer]_vars

(* ------------------------------- claims -------------------------------- *)

\* The call in `last` named a model handle that was live when it was entered.
ModelArgValid(c) == Live(c.pre, c.h) /\ c.pre[c.h].kind = "Model"

\* Every entry of its inputHandles was a live tensor handle.
InputsValid(c) ==
  \A i \in 1..Len(c.ins) : Live(c.pre, c.ins[i]) /\ c.pre[c.ins[i]].kind = "Tensor"

HasEvent(c, names) == \E i \in 1..Len(c.events) : c.events[i] \in names

HandleCalls == {"deleteModel", "getInputNames", "runInference"}

\* C1: a deleteModel, getInputNames or runInference on a model handle that
\* deleteModel has consumed is detected (here: ends in a thrown error or, at
\* the least, in the registry's panic) and never reads the destroyed slot.
C1_UseAfterDestroyDetected ==
  (/\ last.op \in HandleCalls
   /\ Allocated(last.pre, last.h)
   /\ last.pre[last.h].kind = "Model"
   /\ ~last.pre[last.h].live)
    => (last.outcome \in {"thrown", "panic"} /\ ~last.stale)

\* C2: a live Tensor handle given as the model handle, or a live Model handle
\* given among the inputHandles, makes the call fail with a raised
\* type-mismatch error, the registry untouched.
C2_TypeMismatchRaised ==
  LET tensorAsModel ==
        /\ last.op \in HandleCalls
        /\ Live(last.pre, last.h)
        /\ last.pre[last.h].kind = "Tensor"
      modelAsTensor ==
        /\ last.op = "runInference"
        /\ ModelArgValid(last)
        /\ \A i \in 1..Len(last.ins) : Live(last.pre, last.ins[i])
        /\ \E i \in 1..Len(last.ins) : last.pre[last.ins[i]].kind = "Model"
  IN  (tensorAsModel \/ modelAsTensor)
        => (last.outcome = "thrown" /\ last.err = "TypeMismatch" /\ slots = last.pre)

\* C3: the handle a successful loadModel or runInference returns is none of
\* the handles live at that time, and it leaves every live handle live on its
\* object; a successful deleteModel(h) ends h and leaves every other live
\* handle live on its object.
C3_HandlesDistinctAndIndependent ==
  /\ (last.op \in {"loadModel", "runInference"} /\ last.outcome = "ok")
       => /\ last.ret # 0
          /\ last.ret \notin LiveHandles(last.pre)
          /\ Live(slots, last.ret)
          /\ \A g \in LiveHandles(last.pre) : Live(slots, g) /\ slots[g] = last.pre[g]
  /\ (last.op = "deleteModel" /\ last.outcome = "ok")
       => /\ ~Live(slots, last.h)
          /\ \A g \in LiveHandles(last.pre) \ {last.h} :
               Live(slots, g) /\ slots[g] = last.pre[g]

\* A deleteModel returned while two other handles are live.
C3_Witness ==
  /\ last.op = "deleteModel"
  /\ last.outcome = "ok"
  /\ Cardinality(LiveHandles(slots)) >= 2

\* C4: a getInputNames or runInference entered on a live model handle with
\* live tensor handles never reads a dropped slot, whatever the other thread
\* does meanwhile.
C4_BorrowedModelStaysLive ==
  (last.op \in {"getInputNames", "runInference"} /\ ModelArgValid(last) /\ InputsValid(last))
    => (~last.stale /\ last.outcome # "fault")

\* C5: runInference with fewer than 2 input handles (all of them valid) ends
\* in a raised MissingRequiredInput error and allocates no handle.
C5_MissingInputRaised ==
  (last.op = "runInference" /\ Len(last.ins) < 2 /\ ModelArgValid(last) /\ InputsValid(last))
    => (last.outcome = "thrown" /\ last.err = "MissingRequiredInput" /\ slots = last.pre)

\* C6: runInference with fewer than 2 input handles (all of them valid) is
\* rejected before the model handle or any tensor handle is resolved.
C6_CheckBeforeBorrow ==
  (last.op = "runInference" /\ Len(last.ins) < 2 /\ ModelArgValid(last) /\ InputsValid(last))
    => ~HasEvent(last, {"cast_model", "cast_tensor"})

\* C7: a runInference whose forward fails returns 0, allocates no handle and
\* leaves every slot as it was: the model and the inputs stay live and
\* unchanged.
C7_FailedInferenceChangesNothing ==
  (last.op = "runInference" /\ last.outcome = "thrown")
    => /\ last.err = "Computation"
       /\ last.ret = 0
       /\ ~HasEvent(last, {"to_handle"})
       /\ Len(slots) = Len(last.pre)
       /\ \A g \in 1..Len(last.pre) : slots[g] = last.pre[g]
       /\ (ModelArgValid(last) /\ InputsValid(last))
            => /\ Live(slots, last.h)
               /\ \A i \in 1..Len(last.ins) : Live(slots, last.ins[i])

\* A forward failed on a live model and two live tensors.
C7_Witness ==
  /\ last.op = "runInference"
  /\ last.outcome = "thrown"
  /\ Len(last.ins) = 2
  /\ ModelArgValid(last)
  /\ InputsValid(last)

\* C8: a loadModel that fails at any step returns 0, never reaches to_handle
\* and leaves the registry as it was.
C8_FailedLoadAllocatesNothing ==
  (last.op = "loadModel" /\ last.outcome # "ok")
    => /\ last.ret = 0
       /\ ~HasEvent(last, {"to_handle"})
       /\ slots = last.pre

\* A load failed at the last step, the construction of the model, with
\* another object already in the registry.
C8_Witness ==
  /\ last.op = "loadModel"
  /\ last.outcome = "thrown"
  /\ last.err = "Construction"
  /\ Len(slots) > 0

\* C9: in a build without cuda, a loadModel that asks for the gpu ends in a
\* raised device error before config.json or any weight file is read.
C9_DeviceRejectedBeforeRead ==
  (/\ last.op = "loadModel"
   /\ ~world.cuda
   /\ last.req.dev = "gpu"
   /\ last.req.path.kind # "null"
   /\ last.req.dtype # "bad")
    => /\ last.outcome = "thrown"
       /\ last.err = "Device"
       /\ ~HasEvent(last, {"read_config", "read_dir", "mmap_weights"})

\* C10: a loadModel (on a path string and a device the build supports) or a
\* runInference (on valid handles) that fails ends in a raised error with a
\* message, never in a panic.
C10_FailuresAreRaised ==
  (/\ \/ /\ last.op = "loadModel"
         /\ last.req.path.kind # "null"
         /\ (world.cuda \/ last.req.dev # "gpu")
      \/ last.op = "runInference" /\ ModelArgValid(last) /\ InputsValid(last)
   /\ last.outcome # "ok")
    => (last.outcome = "thrown" /\ last.err # "")

\* The loadModel call in `last` got as far as load_model: the path string,
\* the dtype and the device were converted.
ReachedLoadModel(c) == c.op = "loadModel" /\ HasEvent(c, {"read_config"})

\* The device handed to load_model is one the build supports.
DeviceSupported(c) == c.req.dev = "cpu" \/ world.cuda

\* The variants of each family: its base model and, where it has one, its
\* sequence-classification head.
BaseOf(family) ==
  CASE family = "bert" -> "BertModel"
    [] family = "camembert" -> "CamembertModel"
    [] family = "roberta" -> "RobertaModel"
    [] family = "xlm-roberta" -> "XLMRobertaModel"
    [] family = "distilbert" -> "DistilBertModel"
    [] family = "mistral" -> "MistralModel"

HeadOf(family) ==
  CASE family = "bert" -> "BertForSequenceClassification"
    [] family = "roberta" -> "RobertaForSequenceClassification"
    [] family = "xlm-roberta" -> "XLMRobertaForSequenceClassification"
    [] OTHER -> "none"

\* C11: for a document of any of the six families, with any architectures
\* list, on a supported device and with weight files that can be mapped, the
\* load reaches the construction of a variant: it neither panics nor fails
\* before it, a failure is the construction's, and the model of a successful
\* load is the base or the head variant of the document's family.
C11_DispatchTotal ==
  (/\ ReachedLoadModel(last)
   /\ last.req.path.config.tag = "ok"
   /\ last.req.path.store \notin {"unlistable", "corrupt"}
   /\ DeviceSupported(last))
    => /\ HasEvent(last, {"construct"})
       /\ last.outcome \in {"ok", "thrown"}
       /\ (last.outcome = "thrown") => (last.err = "Construction")
       /\ (last.outcome = "ok") =>
            slots[last.ret].obj[2] \in
              {BaseOf(last.req.path.config.family), HeadOf(last.req.path.config.family)}

\* An xlm-roberta document whose first architecture is a name the dispatcher
\* does not know was loaded.
C11_Witness ==
  /\ last.op = "loadModel"
  /\ last.outcome = "ok"
  /\ last.req.path.config.family = "xlm-roberta"
  /\ Len(last.req.path.config.archs) > 0
  /\ last.req.path.config.archs[1] = "BertForMaskedLM"

\* C12: the model of a successful load is the head variant exactly when the
\* first entry of architectures is the head name of the document's own
\* family; in every other case it is the family's base variant.
C12_HeadFromFirstEntryOnly ==
  (last.op = "loadModel" /\ last.outcome = "ok")
    => LET cfg == last.req.path.config
           head == Len(cfg.archs) > 0 /\ cfg.archs[1] = HeadOf(cfg.family)
       IN  slots[last.ret].obj[2] = IF head THEN HeadOf(cfg.family) ELSE BaseOf(cfg.family)

\* A roberta document that names its head in second place, behind another
\* name, was loaded as the base model.
C12_Witness ==
  /\ last.op = "loadModel"
  /\ last.outcome = "ok"
  /\ last.req.path.config.family = "roberta"
  /\ last.req.path.config.archs = <<"BertForMaskedLM", "RobertaForSequenceClassification">>
  /\ slots[last.ret].obj[2] = "RobertaModel"

\* C13: the flag of a loaded model is true exactly when the build has cuda
\* and flash-attn, the dtype is F16 and USE_FLASH_ATTENTION is unset, not a
\* boolean, or true.
C13_FlashAttnFlag ==
  (last.op = "loadModel" /\ last.outcome = "ok")
    => (slots[last.ret].obj[3] =
          (/\ world.cuda
           /\ world.flash
           /\ last.req.dtype = "F16"
           /\ world.envvar \in {"unset", "junk", "true"}))

\* A model was loaded with the flag set although the override holds a value
\* that is no boolean.
C13_Witness ==
  /\ last.op = "loadModel"
  /\ last.outcome = "ok"
  /\ world.envvar = "junk"
  /\ slots[last.ret].obj[3] = TRUE

\* C14: a config.json without model_type, or with one that is no family,
\* makes the load fail at the parse with the unsupported-architecture error:
\* no later step is taken, no model is built, 0 is returned and the registry
\* is as it was.
C14_UnknownFamilyFails ==
  (ReachedLoadModel(last) /\ last.req.path.config.tag \in {"notype", "unknowntype"})
    => /\ last.outcome = "thrown"
       /\ last.err = "UnsupportedArchitecture"
       /\ last.ret = 0
       /\ ~HasEvent(last, {"read_dir", "mmap_weights", "construct", "to_handle"})
       /\ slots = last.pre

\* A load of a directory with fitting weight files failed on the model_type
\* of its config.json.
C14_Witness ==
  /\ ReachedLoadModel(last)
  /\ last.req.path.config.tag = "unknowntype"
  /\ last.req.path.store = "good"
  /\ last.outcome = "thrown"

\* C17: a load of a directory without .safetensors files fails with the IO
\* error of the weight store and does not get to the model's construction.
C17_NoWeightsFailsFast ==
  (/\ ReachedLoadModel(last)
   /\ last.req.path.config.tag = "ok"
   /\ last.req.path.store = "nofiles"
   /\ DeviceSupported(last))
    => /\ last.outcome = "thrown"
       /\ last.err = "IO"
       /\ ~HasEvent(last, {"construct"})

\* The tensor behind the i-th handle of the call's array, as it was when the
\* call was entered.
InputTensor(c, i) == c.pre[c.ins[i]].obj

\* C15: the output of a successful runInference on valid handles is forward
\* of the model with the tensor of inputHandles[0] as the input sequence, that
\* of inputHandles[1] as the attention mask and, as the optional input, that
\* of inputHandles[2] when there is one and nothing when there are two.
C15_InputsPassedByPosition ==
  (/\ last.op = "runInference"
   /\ last.outcome = "ok"
   /\ ModelArgValid(last)
   /\ InputsValid(last))
    => slots[last.ret].obj =
         forward(last.pre[last.h].obj, InputTensor(last, 1), InputTensor(last, 2),
                 IF Len(last.ins) >= 3 THEN InputTensor(last, 3) ELSE NoTensor)

\* An inference on three handles, the first two of different tensors,
\* succeeded.
C15_Witness ==
  /\ last.op = "runInference"
  /\ last.outcome = "ok"
  /\ Len(last.ins) = 3
  /\ last.ins[1] # last.ins[2]
  /\ last.ins[3] = last.ins[1]

\* C16: a successful loadModel or runInference returns a non-zero handle of a
\* live slot; the failure value 0 is returned only with an error raised; and
\* 0 is the handle of no live slot.
C16_ZeroOnlyOnFailure ==
  /\ 0 \notin LiveHandles(slots)
  /\ (last.op \in {"loadModel", "runInference"})
       => /\ (last.outcome = "ok") => (last.ret # 0 /\ Live(slots, last.ret))
          /\ (last.outcome = "thrown") => (last.ret = 0 /\ last.err # "")
          /\ (last.ret = 0) => (last.outcome # "ok")

\* A load failed and returned 0 while the registry holds live objects.
C16_Witness ==
  /\ last.op = "loadModel"
  /\ last.outcome = "thrown"
  /\ last.ret = 0
  /\ LiveHandles(slots) # {}

\* C18: a successful runInference on valid handles adds exactly one slot, a
\* live tensor whose handle is neither the model's nor one of the inputs',
\* and leaves every earlier slot as it was, so that the model and the inputs
\* are still valid arguments of a further call.
C18_SuccessAddsOneHandle ==
  (/\ last.op = "runInference"
   /\ last.outcome = "ok"
   /\ ModelArgValid(last)
   /\ InputsValid(last))
    => /\ Len(slots) = Len(last.pre) + 1
       /\ last.ret = Len(slots)
       /\ Live(slots, last.ret)
       /\ slots[last.ret].kind = "Tensor"
       /\ last.ret # last.h
       /\ \A i \in 1..Len(last.ins) : last.ret # last.ins[i]
       /\ \A g \in 1..Len(last.pre) : slots[g] = last.pre[g]
       /\ Live(slots, last.h) /\ slots[last.h].kind = "Model"
       /\ \A i \in 1..Len(last.ins) :
            Live(slots, last.ins[i]) /\ slots[last.ins[i]].kind = "Tensor"

\* An inference succeeded on a model and inputs on which an earlier
\* inference had succeeded: the registry already held the same output.
C18_Witness ==
  /\ last.op = "runInference"
  /\ last.outcome = "ok"
  /\ ModelArgValid(last)
  /\ InputsValid(last)
  /\ \E g \in 1..Len(last.pre) : last.pre[g].obj = slots[last.ret].obj

\* The number of inputHandles entries the call resolved as tensors.
TensorCasts(c) == Cardinality({i \in 1..Len(c.events) : c.events[i] = "cast_tensor"})

\* C19: a runInference with more than 3 valid tensor handles is not
\* rejected: every handle of the array is resolved, forward is called, and
\* the call does to the registry what the call with the first three handles
\* does.
C19_ExtraInputsIgnored ==
  (/\ last.op = "runInference"
   /\ Len(last.ins) > 3
   /\ ModelArgValid(last)
   /\ InputsValid(last))
    => LET first3 == [mref |-> last.h, irefs |-> SubSeq(last.ins, 1, 3), events |-> <<>>]
           same == runInferenceForward(last.pre, first3, last.outcome = "ok")
       IN  /\ TensorCasts(last) = Len(last.ins)
           /\ HasEvent(last, {"forward"})
           /\ last.outcome \in {"ok", "thrown"}
           /\ last.outcome = same.outcome
           /\ last.err = same.err
           /\ last.ret = same.ret
           /\ slots = same.reg

\* An inference on four handles succeeded, the fourth naming another tensor
\* than the third.
C19_Witness ==
  /\ last.op = "runInference"
  /\ last.outcome = "ok"
  /\ Len(last.ins) = 4
  /\ last.ins[4] # last.ins[3]

===========================================================================
